---------------------------- MODULE Spec2Model ----------------------------
(***************************************************************************)
(* A model of the TOTP library (src/unnamed/part_001, the library's        *)
(* totp.ts; src/module/totp.js is its compiled form).                      *)
(*                                                                         *)
(* Text (secrets, tokens, codes) is a sequence of one-character strings.   *)
(* The HMAC provider (crypto.subtle) is outside the repository: it is      *)
(* modelled as a deterministic oracle, `hmacTable`, that fixes the MAC of  *)
(* an (algorithm, key, message) triple the first time it is signed and     *)
(* answers the same MAC ever after.                                        *)
(***************************************************************************)
EXTENDS Integers, Sequences, FiniteSets, TLC

(***************************************************************************)
(* Text helpers (JavaScript string primitives used by the library).        *)
(***************************************************************************)
UpperLetters ==
  << "A","B","C","D","E","F","G","H","I","J","K","L","M",
     "N","O","P","Q","R","S","T","U","V","W","X","Y","Z" >>

LowerLetters ==
  << "a","b","c","d","e","f","g","h","i","j","k","l","m",
     "n","o","p","q","r","s","t","u","v","w","x","y","z" >>

DigitChars == << "0","1","2","3","4","5","6","7","8","9" >>

\* String.prototype.toUpperCase, one character (ASCII).
UpperChar(ch) ==
  IF \E i \in 1..26 : LowerLetters[i] = ch
    THEN UpperLetters[CHOOSE i \in 1..26 : LowerLetters[i] = ch]
    ELSE ch

toUpperCase(s) == [i \in 1..Len(s) |-> UpperChar(s[i])]

\* input.replace(/=+$/, ""): drops the run of '=' that ends the text.
RECURSIVE StripPadding(_)
StripPadding(s) ==
  IF Len(s) > 0 /\ s[Len(s)] = "="
    THEN StripPadding(SubSeq(s, 1, Len(s) - 1))
    ELSE s

\* Number.prototype.toString() of an integer, as text.
RECURSIVE NatToString(_)
NatToString(n) ==
  IF n < 10 THEN << DigitChars[n + 1] >>
            ELSE NatToString(n \div 10) \o << DigitChars[(n % 10) + 1] >>

toString(n) == IF n < 0 THEN << "-" >> \o NatToString(-n) ELSE NatToString(n)

\* The value a text of decimal digits denotes.
RECURSIVE DecimalValue(_)
DecimalValue(text) ==
  IF Len(text) = 0 THEN 0
  ELSE 10 * DecimalValue(SubSeq(text, 1, Len(text) - 1))
       + ((CHOOSE i \in 1..10 : DigitChars[i] = text[Len(text)]) - 1)

\* String.prototype.padStart(targetLength, "0").
RECURSIVE padStart(_, _)
padStart(s, targetLength) ==
  IF Len(s) >= targetLength THEN s ELSE padStart(<< "0" >> \o s, targetLength)

(***************************************************************************)
(* Base32 codec.                                                           *)
(***************************************************************************)
alphabet ==
  << "A","B","C","D","E","F","G","H","I","J","K","L","M",
     "N","O","P","Q","R","S","T","U","V","W","X","Y","Z",
     "2","3","4","5","6","7" >>

\* alphabet.indexOf(char): zero-based, -1 when absent.
indexOf(ch) ==
  IF \E i \in 1..Len(alphabet) : alphabet[i] = ch
    THEN (CHOOSE i \in 1..Len(alphabet) : alphabet[i] = ch) - 1
    ELSE -1

\* val.toString(2).padStart(5, "0") as five bits, most significant first.
Bits5(val) ==
  << (val \div 16) % 2, (val \div 8) % 2, (val \div 4) % 2, (val \div 2) % 2, val % 2 >>

RECURSIVE BitString(_)
BitString(text) ==
  IF Len(text) = 0 THEN << >>
  ELSE BitString(SubSeq(text, 1, Len(text) - 1)) \o Bits5(indexOf(text[Len(text)]))

\* parseInt(bits.substring(i, i + 8), 2)
ParseByte(b) ==
  b[1] * 128 + b[2] * 64 + b[3] * 32 + b[4] * 16 + b[5] * 8 + b[6] * 4 + b[7] * 2 + b[8]

Base32Error == "Invalid Base32 character in secret"

\* Mutant: a character outside the alphabet is decoded like any other instead
\* of raising the error.
base32Decode_Lenient(input) ==
  LET text == toUpperCase(StripPadding(input))
      bits == BitString(text)
  IN  [ok    |-> TRUE,
       bytes |-> [k \in 1..(Len(bits) \div 8) |->
                    ParseByte(SubSeq(bits, 8 * (k - 1) + 1, 8 * k))]]

\* Mutant: the input is not upper-cased before the lookup.
base32Decode_CaseSensitive(input) ==
  LET text == StripPadding(input)
  IN  IF \E i \in 1..Len(text) : indexOf(text[i]) = -1
        THEN [ok |-> FALSE, bytes |-> << >>]
        ELSE LET bits == BitString(text)
             IN  [ok    |-> TRUE,
                  bytes |-> [k \in 1..(Len(bits) \div 8) |->
                               ParseByte(SubSeq(bits, 8 * (k - 1) + 1, 8 * k))]]

\* base32Decode: [ok |-> TRUE, bytes] or [ok |-> FALSE] (the thrown Error).
base32Decode(input) ==
  LET text == toUpperCase(StripPadding(input))
  IN  IF \E i \in 1..Len(text) : indexOf(text[i]) = -1
        THEN [ok |-> FALSE, bytes |-> << >>]
        ELSE LET bits == BitString(text)
             IN  [ok    |-> TRUE,
                  bytes |-> [k \in 1..(Len(bits) \div 8) |->
                               ParseByte(SubSeq(bits, 8 * (k - 1) + 1, 8 * k))]]

(***************************************************************************)
(* HOTP core.                                                              *)
(***************************************************************************)
\* toUint8Array: view.setBigUint64(0, BigInt(num)) stores num modulo 2^64,
\* big-endian; n bytes of it, computed by floor division so that a negative
\* num yields its two's complement.
RECURSIVE BigEndian(_, _)
BigEndian(num, n) ==
  IF n = 0 THEN << >> ELSE BigEndian(num \div 256, n - 1) \o << num % 256 >>

toUint8Array(num) == BigEndian(num, 8)

\* Mutant: the first byte is not masked with 0x7f; `<< 24` then yields a signed
\* 32-bit value, negative when the byte's top bit is set.
TruncBinary_NoMask(hmac) ==
  LET offset == hmac[Len(hmac)] % 16
      first  == hmac[offset + 1]
  IN  (IF first >= 128 THEN first - 256 ELSE first) * 16777216
      + hmac[offset + 2] * 65536
      + hmac[offset + 3] * 256
      + hmac[offset + 4]

\* hmac[hmac.length - 1] & 0x0f
TruncOffset(hmac) == hmac[Len(hmac)] % 16

\* ((hmac[offset] & 0x7f) << 24) | (hmac[offset+1] << 16) | (hmac[offset+2] << 8) | hmac[offset+3]
\* (hmac is indexed from 1 here, from 0 in the source).
TruncBinary(hmac) ==
  LET offset == TruncOffset(hmac)
  IN  (hmac[offset + 1] % 128) * 16777216
      + hmac[offset + 2] * 65536
      + hmac[offset + 3] * 256
      + hmac[offset + 4]

\* binary % 10 ** digits, for integer digits >= 0.  JavaScript's % takes the
\* sign of the dividend.  |binary| < 2^31 < 10^10, so from ten digits on the
\* remainder is binary itself (10^10 is beyond TLC's integers).
Remainder(binary, digits) ==
  IF digits >= 10 THEN binary
  ELSE IF binary >= 0 THEN binary % (10 ^ digits)
  ELSE -((-binary) % (10 ^ digits))

\* Mutant: the code is not padded.
CodeOf_NoPad(hmac, digits) == toString(Remainder(TruncBinary(hmac), digits))

\* code = (binary % 10 ** digits).toString(); return code.padStart(digits, "0")
CodeOf(hmac, digits) == padStart(toString(Remainder(TruncBinary(hmac), digits)), digits)

(***************************************************************************)
(* TOTP counter.                                                           *)
(***************************************************************************)
\* Math.floor(timestamp / 1000 / timeStep) for integer timestamp and nonzero
\* integer timeStep: the floor of the exact quotient timestamp/(1000*timeStep).
TOTPCounter(timestamp, timeStep) ==
  IF timeStep > 0 THEN timestamp \div (1000 * timeStep)
                  ELSE (-timestamp) \div (1000 * (-timeStep))

(***************************************************************************)
(* The provisioning URI.                                                   *)
(***************************************************************************)
\* The printable ASCII characters, from code 32 (space) to code 126 (~); the
\* double quote (34), the backslash (92) and the backtick (96) are spelled out.
Ascii ==
  <<
     " ", "!", "(quote)", "#", "$", "%", "&", "'", "(", ")", "*", "+", ",", "-", ".", "/",
     "0", "1", "2", "3", "4", "5", "6", "7", "8", "9", ":", ";", "<", "=", ">", "?",
     "@", "A", "B", "C", "D", "E", "F", "G", "H", "I", "J", "K", "L", "M", "N", "O",
     "P", "Q", "R", "S", "T", "U", "V", "W", "X", "Y", "Z", "[", "(backslash)", "]", "^", "_",
     "(backtick)", "a", "b", "c", "d", "e", "f", "g", "h", "i", "j", "k", "l", "m", "n", "o",
     "p", "q", "r", "s", "t", "u", "v", "w", "x", "y", "z", "{", "|", "}", "~"
  >>

\* The character's code (text outside printable ASCII is not modelled).
CharCode(ch) == (CHOOSE i \in 1..Len(Ascii) : Ascii[i] = ch) + 31

HexDigits == << "0","1","2","3","4","5","6","7","8","9","A","B","C","D","E","F" >>

\* %XX, with upper-case hexadecimal digits.
PercentEncoded(ch) ==
  "%" \o HexDigits[(CharCode(ch) \div 16) + 1] \o HexDigits[(CharCode(ch) % 16) + 1]

IsAlphanumeric(ch) ==
  \/ \E i \in 1..26 : UpperLetters[i] = ch \/ LowerLetters[i] = ch
  \/ \E i \in 1..10 : DigitChars[i] = ch

\* encodeURIComponent leaves A-Z a-z 0-9 - _ . ! ~ * ' ( ) and escapes the rest.
RECURSIVE encodeURIComponent(_)
encodeURIComponent(text) ==
  IF Len(text) = 0 THEN ""
  ELSE LET ch == text[1]
       IN  (IF IsAlphanumeric(ch) \/ ch \in {"-", "_", ".", "!", "~", "*", "'", "(", ")"}
              THEN ch ELSE PercentEncoded(ch))
           \o encodeURIComponent(Tail(text))

\* URLSearchParams serialises a name or a value as application/x-www-form-
\* urlencoded: A-Z a-z 0-9 * - . _ are left, a space becomes '+', the rest is
\* escaped.
RECURSIVE FormEncoded(_)
FormEncoded(text) ==
  IF Len(text) = 0 THEN ""
  ELSE LET ch == text[1]
       IN  (IF IsAlphanumeric(ch) \/ ch \in {"*", "-", ".", "_"} THEN ch
            ELSE IF ch = " " THEN "+"
            ELSE PercentEncoded(ch))
           \o FormEncoded(Tail(text))

\* new URLSearchParams({...}).toString(): name=value pairs in insertion order,
\* joined by '&'.
RECURSIVE URLSearchParamsToString(_)
URLSearchParamsToString(pairs) ==
  IF Len(pairs) = 0 THEN ""
  ELSE FormEncoded(pairs[1][1]) \o "=" \o FormEncoded(pairs[1][2])
       \o (IF Len(pairs) > 1 THEN "&" ELSE "")
       \o URLSearchParamsToString(Tail(pairs))

\* algorithm.replace(/-/g, "")
RECURSIVE WithoutHyphens(_)
WithoutHyphens(text) ==
  IF Len(text) = 0 THEN << >>
  ELSE (IF text[1] = "-" THEN << >> ELSE << text[1] >>) \o WithoutHyphens(Tail(text))

\* An option of the options object, or its default when it is left out.
Option(options, name, default) ==
  IF name \in DOMAIN options THEN options[name] ELSE default

\* The defaults of the options objects.
DefaultTimeStep  == 30
DefaultDigits    == 6
DefaultWindow    == 1
DefaultPeriod    == 30
DefaultAlgorithm == << "S","H","A","-","1" >>

\* Mutant: the query is put together from the raw values.
generateTOTPURI_RawQuery(options) ==
  LET digits    == Option(options, "digits", DefaultDigits)
      period    == Option(options, "period", DefaultPeriod)
      algorithm == Option(options, "algorithm", DefaultAlgorithm)
      label     == encodeURIComponent(options.issuer \o << ":" >> \o options.accountName)
      raw[t \in Seq(STRING)] == IF Len(t) = 0 THEN "" ELSE t[1] \o raw[Tail(t)]
  IN  "otpauth://totp/" \o label
      \o "?secret=" \o raw[options.secret]
      \o "&issuer=" \o raw[options.issuer]
      \o "&algorithm=" \o raw[WithoutHyphens(algorithm)]
      \o "&digits=" \o raw[toString(digits)]
      \o "&period=" \o raw[toString(period)]

generateTOTPURI(options) ==
  LET digits    == Option(options, "digits", DefaultDigits)
      period    == Option(options, "period", DefaultPeriod)
      algorithm == Option(options, "algorithm", DefaultAlgorithm)
      label     == encodeURIComponent(options.issuer \o << ":" >> \o options.accountName)
      params    == << << << "s","e","c","r","e","t" >>, options.secret >>,
                      << << "i","s","s","u","e","r" >>, options.issuer >>,
                      << << "a","l","g","o","r","i","t","h","m" >>, WithoutHyphens(algorithm) >>,
                      << << "d","i","g","i","t","s" >>, toString(digits) >>,
                      << << "p","e","r","i","o","d" >>, toString(period) >> >>
  IN  "otpauth://totp/" \o label \o "?" \o URLSearchParamsToString(params)

(***************************************************************************)
(* Secret generation.                                                      *)
(***************************************************************************)
DefaultSecretLength == 32

\* Mutant: the characters are drawn from the Base32hex alphabet, 0-9A-V.
generateTOTPSecret_HexAlphabet(length, randomValues) ==
  LET hex == << "0","1","2","3","4","5","6","7","8","9","A","B","C","D","E","F",
                "G","H","I","J","K","L","M","N","O","P","Q","R","S","T","U","V" >>
  IN  [i \in 1..length |-> hex[(randomValues[i] % Len(hex)) + 1]]

\* generateTOTPSecret, `randomValues` being what getRandomValues filled in.
generateTOTPSecret(length, randomValues) ==
  [i \in 1..length |-> alphabet[(randomValues[i] % Len(alphabet)) + 1]]

(***************************************************************************)
(* The HMAC provider: crypto.subtle.importKey and crypto.subtle.sign.      *)
(***************************************************************************)
Algorithms == {"SHA-1", "SHA-256", "SHA-512"}

\* Output length of HMAC with each hash, in bytes.
MacLength(algorithm) ==
  CASE algorithm = "SHA-1"   -> 20
    [] algorithm = "SHA-256" -> 32
    [] algorithm = "SHA-512" -> 64

\* A MAC of `len` bytes whose last byte is `last` and whose four bytes at the
\* offset that `last` selects are `word`; every other byte is 0xAA.
MacWith(len, last, word) ==
  [i \in 1..len |->
     IF i = len THEN last
     ELSE IF i \in ((last % 16) + 1)..((last % 16) + 4) THEN word[i - (last % 16)]
     ELSE 170]

\* The MACs the provider may answer in this model: one with offset 0 and a
\* small value (leading zeros in the code), one with offset 15 (the largest)
\* and every bit of its four bytes set (the top bit is to be masked off).
MacSamples(algorithm) ==
  { MacWith(MacLength(algorithm), 80,  << 0, 0, 0, 42 >>),
    MacWith(MacLength(algorithm), 255, << 255, 255, 255, 255 >>) }

(***************************************************************************)
(* Inputs of the calls.                                                    *)
(***************************************************************************)
SecretFoo     == << "M","Z","X","W","6","=","=","=" >>  \* the bytes "foo", padded
SecretInvalid == << "1","2","3","4","5" >>              \* '1' is not in the alphabet
SecretBadPad  == << "M","=","Z" >>                      \* '=' before the end
SecretShort   == << "A" >>                              \* five bits: no whole byte
SecretEmpty   == << >>                                  \* decodes to no byte

Secrets    == { SecretFoo, SecretInvalid, SecretBadPad, SecretShort, SecretEmpty }
TimeSteps  == { DefaultTimeStep, 0, -DefaultTimeStep }
DigitsSet  == { DefaultDigits, 0, 10 }
MaxWindow  == 1
Windows    == -1..MaxWindow
\* Milliseconds: with timeStep 30 the counters 0, 0, 1 and 4.
Timestamps == { 0, 15000, 30000, 120000 }
\* Tokens a caller may present besides the codes generateTOTP returned.
FixedTokens == { << "0","0","0","0","0","0" >>, << "4","2" >> }

\* Arguments of generateTOTPURI; an option may be left out.
AccountNames  == { << "a","@","b" >>, << "x" >> }
Issuers       == { << "R"," ","C" >>, << "I","!" >> }
URISecrets    == { << "M","Z","X","W","6" >>, SecretFoo }
URIAlgorithms == { << "S","H","A","-","1" >>, << "S","H","A","-","2","5","6" >>,
                   << "S","H","A","-","5","1","2" >> }
URIOptions ==
  { base @@ d @@ q @@ a :
      base \in [ accountName : AccountNames, issuer : Issuers, secret : URISecrets ],
      d \in { << >> } \cup { [digits |-> n] : n \in { DefaultDigits, 8 } },
      q \in { << >> } \cup { [period |-> n] : n \in { DefaultPeriod, 60 } },
      a \in { << >> } \cup { [algorithm |-> n] : n \in URIAlgorithms } }

\* Arguments of generateTOTPSecret, and what the random source may fill in:
\* any bytes of ByteSamples for a short secret, a few patterns for the default
\* length.
MaxSecretLength == 3
ByteSamples     == { 0, 25, 26, 31, 32, 255 }
SecretOptions   == { << >> } \cup { [length |-> n] : n \in 0..MaxSecretLength }
RandomValues(length) ==
  IF length <= MaxSecretLength
    THEN [ 1..length -> ByteSamples ]
    ELSE { [i \in 1..length |-> (i * k) % 256] : k \in { 0, 1, 37, 255 } }

\* MACs handed to hotp's truncation: every offset, with the upper bits of the
\* last byte clear or set, and words that exercise the top bit of the first byte.
LastBytes == { 16 * h + o : h \in { 0, 15 }, o \in 0..15 }
MacWords  == { << 0, 0, 0, 0 >>, << 0, 0, 0, 42 >>, << 1, 2, 3, 4 >>,
               << 127, 255, 255, 255 >>, << 128, 0, 0, 0 >>, << 255, 255, 255, 255 >> }
TruncationInputs ==
  { MacWith(MacLength(a), last, word) : a \in Algorithms, last \in LastBytes, word \in MacWords }

\* Secrets handed to base32Decode: up to MaxTextLength characters (letters of
\* both cases, a digit of the alphabet, a digit outside it) and up to
\* MaxPadding trailing '='.
MaxTextLength == 5
MaxPadding    == 2
TextChars     == { "A", "h", "H", "7", "1" }
Texts(n)      == UNION { [ 1..k -> TextChars ] : k \in 0..n }
Padding(k)    == [ i \in 1..k |-> "=" ]
Base32Inputs  == { t \o Padding(k) : t \in Texts(MaxTextLength), k \in 0..MaxPadding }

\* Two calls, which may run one after the other or interleave at their awaits:
\* a prover's, which generates a code, and a second caller's, which generates
\* or verifies one.
Prover  == "prover"
Second  == "second"
CallIds == { Prover, Second }

\* The configurations a prover and a verifier may share.
Sessions ==
  [ secret : Secrets, timeStep : TimeSteps, digits : DigitsSet, algorithm : Algorithms ]

VARIABLES
  session,    \* the secret and options the callers of this run share
  calls,      \* calls[c]: the activation record of call c (its promise included)
  hmacTable,  \* the provider's answers so far: <<algorithm, key, message>> -> MAC
  pure        \* the call of a synchronous function: its arguments and its result

vars == << session, calls, hmacTable, pure >>

NoText == << >>

IdleCall ==
  [ op |-> "none", pc |-> "idle",
    token |-> NoText, secret |-> NoText, window |-> 0, timeStep |-> 0,
    digits |-> 0, timestamp |-> 0, algorithm |-> "SHA-1",
    decodedSecret |-> << >>, counter |-> 0, counterFinite |-> TRUE,
    errorWindow |-> 0, message |-> << >>, computed |-> << >>, otps |-> << >>,
    code |-> NoText, valid |-> FALSE, error |-> "" ]

NoPureCall ==
  [ op |-> "none", options |-> << >>, randomValues |-> << >>, uri |-> "", secret |-> NoText,
    hmac |-> << >>, offset |-> 0, binary |-> 0,
    input |-> NoText, decoded |-> [ok |-> TRUE, bytes |-> << >>] ]

Init ==
  /\ session \in Sessions
  /\ calls = [c \in CallIds |-> IdleCall]
  /\ hmacTable = << >>
  /\ pure = NoPureCall

\* The record of a call once its options are destructured and the secret is
\* decoded (the code up to the loop or the hotp call).
Entered(op, token, secret, window, timeStep, digits, timestamp, algorithm) ==
  LET decoded == base32Decode(secret)
  IN  [ IdleCall EXCEPT
          !.op = op, !.token = token, !.secret = secret, !.window = window,
          !.timeStep = timeStep, !.digits = digits, !.timestamp = timestamp,
          !.algorithm = algorithm,
          !.decodedSecret = decoded.bytes,
          !.counterFinite = (timeStep # 0),
          !.counter = IF timeStep # 0 THEN TOTPCounter(timestamp, timeStep) ELSE 0,
          !.pc = IF decoded.ok THEN "entered" ELSE "rejected",
          !.error = IF decoded.ok THEN "" ELSE Base32Error ]

\* generateTOTP up to its first suspension: hotp is entered and importKey called.
GenerateEntry(secret, timeStep, digits, timestamp, algorithm) ==
  LET r == Entered("generateTOTP", NoText, secret, 0, timeStep, digits, timestamp, algorithm)
  IN  IF r.pc = "rejected" THEN r ELSE [r EXCEPT !.pc = "importKey"]

\* Mutant: the loop condition is errorWindow < window.
VerifyEntry_StrictLoop(token, secret, window, timeStep, digits, timestamp, algorithm) ==
  LET r == Entered("verifyTOTP", token, secret, window, timeStep, digits, timestamp, algorithm)
  IN  IF r.pc = "rejected" THEN r
      ELSE IF -window < window
        THEN [r EXCEPT !.pc = "importKey", !.errorWindow = -window]
        ELSE [r EXCEPT !.pc = "resolved", !.errorWindow = -window, !.valid = FALSE]

\* Mutant: the loop starts at 0 (errorWindow = 0), so only the current and the
\* later counters are tried.
VerifyEntry_FromCounter(token, secret, window, timeStep, digits, timestamp, algorithm) ==
  LET r == Entered("verifyTOTP", token, secret, window, timeStep, digits, timestamp, algorithm)
  IN  IF r.pc = "rejected" THEN r
      ELSE IF 0 <= window
        THEN [r EXCEPT !.pc = "importKey", !.errorWindow = 0]
        ELSE [r EXCEPT !.pc = "resolved", !.errorWindow = 0, !.valid = FALSE]

\* verifyTOTP up to its first suspension: the loop starts at -window; with a
\* negative window its body never runs and the call returns false.
VerifyEntry(token, secret, window, timeStep, digits, timestamp, algorithm) ==
  LET r == Entered("verifyTOTP", token, secret, window, timeStep, digits, timestamp, algorithm)
  IN  IF r.pc = "rejected" THEN r
      ELSE IF -window <= window
        THEN [r EXCEPT !.pc = "importKey", !.errorWindow = -window]
        ELSE [r EXCEPT !.pc = "resolved", !.errorWindow = -window, !.valid = FALSE]

\* The codes generateTOTP has returned so far.
ReturnedCodes ==
  { calls[c].code : c \in { d \in CallIds : calls[d].op = "generateTOTP" /\ calls[d].pc = "resolved" } }

generateTOTP(c) ==
  /\ calls[c].pc = "idle"
  /\ \E timestamp \in Timestamps :
       calls' = [calls EXCEPT ![c] =
                   GenerateEntry(session.secret, session.timeStep, session.digits,
                                 timestamp, session.algorithm)]
  /\ UNCHANGED << session, hmacTable, pure >>

verifyTOTP(c) ==
  /\ c = Second
  /\ calls[c].pc = "idle"
  /\ \E token \in FixedTokens \cup ReturnedCodes, window \in Windows,
        timestamp \in Timestamps :
       calls' = [calls EXCEPT ![c] =
                   VerifyEntry(token, session.secret, window, session.timeStep,
                               session.digits, timestamp, session.algorithm)]
  /\ UNCHANGED << session, hmacTable, pure >>

\* Mutant: errorWindow is a variable of the module, shared by the calls, and
\* holds what the verification in progress last wrote to it.
CounterMessage_SharedWindow(c) ==
  toUint8Array(calls[c].counter + calls[Second].errorWindow)

\* toUint8Array(counter) in hotp, whose counter is `counter` for generateTOTP
\* (errorWindow stays 0) and `counter + errorWindow` for verifyTOTP.
CounterMessage(c) == toUint8Array(calls[c].counter + calls[c].errorWindow)

\* hotp resumes after `await importKey(...)`: the provider refuses a key of no
\* byte (Web Crypto, HMAC import: a key of length zero is a DataError);
\* BigInt(counter) throws a RangeError unless the counter is a finite integer;
\* otherwise sign is called on the counter's 8 bytes.
AfterImportKey(c) ==
  LET r == calls[c]
  IN  IF Len(r.decodedSecret) = 0
        THEN [r EXCEPT !.pc = "rejected", !.error = "DataError"]
      ELSE IF ~r.counterFinite
        THEN [r EXCEPT !.pc = "rejected", !.error = "RangeError"]
      ELSE [r EXCEPT !.pc = "sign", !.message = CounterMessage(c)]

importKeyDone(c) ==
  /\ calls[c].pc = "importKey"
  /\ calls' = [calls EXCEPT ![c] = AfterImportKey(c)]
  /\ UNCHANGED << session, hmacTable, pure >>

\* The MACs sign may answer: the recorded one, or any sample the first time.
SignAnswers(algorithm, key, message) ==
  IF << algorithm, key, message >> \in DOMAIN hmacTable
    THEN { hmacTable[<< algorithm, key, message >>] }
    ELSE MacSamples(algorithm)

\* Mutant: the loop stops one step short (errorWindow < window after the first).
AfterSign_StrictBound(r, hmac) ==
  LET otp  == CodeOf(hmac, r.digits)
      done == [r EXCEPT !.computed = Append(@, r.counter + r.errorWindow),
                        !.otps = Append(@, otp)]
  IN  IF r.op = "generateTOTP"
        THEN [done EXCEPT !.pc = "resolved", !.code = otp]
      ELSE IF otp = r.token
        THEN [done EXCEPT !.pc = "resolved", !.valid = TRUE]
      ELSE IF r.errorWindow + 1 < r.window
        THEN [done EXCEPT !.pc = "importKey", !.errorWindow = @ + 1]
      ELSE [done EXCEPT !.pc = "resolved", !.valid = FALSE]

\* Mutant: no return inside the loop; the result is the last comparison's.
AfterSign_LastOnly(r, hmac) ==
  LET otp  == CodeOf(hmac, r.digits)
      done == [r EXCEPT !.computed = Append(@, r.counter + r.errorWindow),
                        !.otps = Append(@, otp)]
  IN  IF r.op = "generateTOTP"
        THEN [done EXCEPT !.pc = "resolved", !.code = otp]
      ELSE IF r.errorWindow + 1 <= r.window
        THEN [done EXCEPT !.pc = "importKey", !.errorWindow = @ + 1]
      ELSE [done EXCEPT !.pc = "resolved", !.valid = (otp = r.token)]

\* Mutant: the code and the token are compared as numbers.
AfterSign_NumericCompare(r, hmac) ==
  LET otp  == CodeOf(hmac, r.digits)
      done == [r EXCEPT !.computed = Append(@, r.counter + r.errorWindow),
                        !.otps = Append(@, otp)]
  IN  IF r.op = "generateTOTP"
        THEN [done EXCEPT !.pc = "resolved", !.code = otp]
      ELSE IF DecimalValue(otp) = DecimalValue(r.token)
        THEN [done EXCEPT !.pc = "resolved", !.valid = TRUE]
      ELSE IF r.errorWindow + 1 <= r.window
        THEN [done EXCEPT !.pc = "importKey", !.errorWindow = @ + 1]
      ELSE [done EXCEPT !.pc = "resolved", !.valid = FALSE]

\* Mutant: the loop body is `return otp === token`: the first comparison decides.
AfterSign_FirstOnly(r, hmac) ==
  LET otp  == CodeOf(hmac, r.digits)
      done == [r EXCEPT !.computed = Append(@, r.counter + r.errorWindow),
                        !.otps = Append(@, otp)]
  IN  IF r.op = "generateTOTP"
        THEN [done EXCEPT !.pc = "resolved", !.code = otp]
      ELSE [done EXCEPT !.pc = "resolved", !.valid = (otp = r.token)]

\* hotp resumes after `await sign(...)` with its code; generateTOTP returns it,
\* verifyTOTP compares it to the token and returns, or goes round the loop.
AfterSign(r, hmac) ==
  LET otp  == CodeOf(hmac, r.digits)
      done == [r EXCEPT !.computed = Append(@, r.counter + r.errorWindow),
                        !.otps = Append(@, otp)]
  IN  IF r.op = "generateTOTP"
        THEN [done EXCEPT !.pc = "resolved", !.code = otp]
      ELSE IF otp = r.token
        THEN [done EXCEPT !.pc = "resolved", !.valid = TRUE]
      ELSE IF r.errorWindow + 1 <= r.window
        THEN [done EXCEPT !.pc = "importKey", !.errorWindow = @ + 1]
      ELSE [done EXCEPT !.pc = "resolved", !.valid = FALSE]

signDone(c) ==
  /\ calls[c].pc = "sign"
  /\ LET r   == calls[c]
         key == << r.algorithm, r.decodedSecret, r.message >>
     IN  \E hmac \in SignAnswers(r.algorithm, r.decodedSecret, r.message) :
           /\ calls' = [calls EXCEPT ![c] = AfterSign(r, hmac)]
           /\ hmacTable' = (key :> hmac) @@ hmacTable
           /\ UNCHANGED << session, pure >>

Next ==
  \E c \in CallIds :
    \/ generateTOTP(c)
    \/ verifyTOTP(c)
    \/ importKeyDone(c)
    \/ signDone(c)

Spec == Init /\ [][Next]_vars

\* The provider settles every promise it returned and the event loop resumes
\* the function that awaits it: a call suspended at `await importKey(...)` or
\* `await sign(...)` is eventually resumed.
Fairness == \A c \in CallIds : WF_vars(importKeyDone(c)) /\ WF_vars(signDone(c))

\* The runs whose callers leave the algorithm at its default, "SHA-1".
InitDefaultAlgorithm == Init /\ session.algorithm = "SHA-1"

FairSpec == InitDefaultAlgorithm /\ [][Next]_vars /\ Fairness

(***************************************************************************)
(* The synchronous functions, each called once from the initial state.     *)
(***************************************************************************)
InitPure ==
  /\ session = [ secret |-> SecretFoo, timeStep |-> DefaultTimeStep,
                 digits |-> DefaultDigits, algorithm |-> "SHA-1" ]
  /\ calls = [c \in CallIds |-> IdleCall]
  /\ hmacTable = << >>
  /\ pure = NoPureCall

CallGenerateTOTPURI ==
  /\ pure.op = "none"
  /\ \E options \in URIOptions :
       pure' = [pure EXCEPT !.op = "generateTOTPURI", !.options = options,
                            !.uri = generateTOTPURI(options)]
  /\ UNCHANGED << session, calls, hmacTable >>

CallGenerateTOTPSecret ==
  /\ pure.op = "none"
  /\ \E options \in SecretOptions :
       LET length == Option(options, "length", DefaultSecretLength)
       IN  \E randomValues \in RandomValues(length) :
             pure' = [pure EXCEPT !.op = "generateTOTPSecret", !.options = options,
                                  !.randomValues = randomValues,
                                  !.secret = generateTOTPSecret(length, randomValues)]
  /\ UNCHANGED << session, calls, hmacTable >>

\* hotp's dynamic truncation (lines 99-100) of a MAC the provider returned.
CallTruncation ==
  /\ pure.op = "none"
  /\ \E hmac \in TruncationInputs :
       pure' = [pure EXCEPT !.op = "truncation", !.hmac = hmac,
                            !.offset = TruncOffset(hmac),
                            !.binary = TruncBinary(hmac)]
  /\ UNCHANGED << session, calls, hmacTable >>

CallBase32Decode ==
  /\ pure.op = "none"
  /\ \E input \in Base32Inputs :
       pure' = [pure EXCEPT !.op = "base32Decode", !.input = input,
                            !.decoded = base32Decode(input)]
  /\ UNCHANGED << session, calls, hmacTable >>

NextPure ==
  \/ CallGenerateTOTPURI
  \/ CallGenerateTOTPSecret
  \/ CallTruncation
  \/ CallBase32Decode

SpecPure == InitPure /\ [][NextPure]_vars

(***************************************************************************)
(* Vocabulary of the properties.                                           *)
(***************************************************************************)
Finished(r)   == r.pc \in {"resolved", "rejected"}
IsGenerate(r) == r.op = "generateTOTP"
IsVerify(r)   == r.op = "verifyTOTP"

SameOptions(p, v) ==
  /\ p.secret = v.secret
  /\ p.timeStep = v.timeStep
  /\ p.digits = v.digits
  /\ p.algorithm = v.algorithm

Base32Chars == { alphabet[i] : i \in 1..Len(alphabet) }

\* Every character left after the trailing '=' are dropped is, upper-cased, in A-Z2-7.
WellFormed(secret) ==
  \A i \in 1..Len(StripPadding(secret)) : UpperChar(StripPadding(secret)[i]) \in Base32Chars

\* The number of whole bytes in the 5-bit groups of the secret's characters.
KeyBytes(secret) == (5 * Len(StripPadding(secret))) \div 8

\* n = floor(t / d) for a nonzero integer d.
IsFloorQuotient(n, t, d) ==
  IF d > 0 THEN n * d <= t /\ t < (n + 1) * d
           ELSE n * d >= t /\ t > (n + 1) * d

Distance(a, b) == IF a >= b THEN a - b ELSE b - a

DecimalDigits == { DigitChars[i] : i \in 1..10 }

\* The codes of the counters of v's window that the provider has answered for.
WindowCodes(v) ==
  { CodeOf(hmacTable[<< v.algorithm, v.decodedSecret, toUint8Array(v.counter + k) >>], v.digits) :
      k \in { e \in (-v.window)..v.window :
                << v.algorithm, v.decodedSecret, toUint8Array(v.counter + e) >> \in DOMAIN hmacTable } }

\* A generated code presented to a verification with the same options.
Presented(p, v) ==
  /\ IsGenerate(p) /\ p.pc = "resolved"
  /\ IsVerify(v) /\ Finished(v)
  /\ v.token = p.code
  /\ SameOptions(p, v)

(***************************************************************************)
(* C1.  Round trip.                                                        *)
(***************************************************************************)
\* C1 as stated: for every well-formed Base32 secret, positive timeStep and
\* digits, generateTOTP returns a code, and verifyTOTP of that code with the
\* same options and any window >= 0 returns true.
C1_RoundTripAnySecret ==
  \A p \in CallIds, v \in CallIds :
    LET gp == calls[p]
        gv == calls[v]
    IN  /\ ( IsGenerate(gp) /\ Finished(gp) /\ WellFormed(gp.secret)
             /\ gp.timeStep > 0 /\ gp.digits > 0 )
           => gp.pc = "resolved"
        /\ ( Presented(gp, gv) /\ gv.timestamp = gp.timestamp /\ gv.window >= 0 )
           => (gv.pc = "resolved" /\ gv.valid)

\* C1 (amended): the same for every well-formed Base32 secret that decodes to
\* at least one byte.
C1_RoundTrip ==
  \A p \in CallIds, v \in CallIds :
    LET gp == calls[p]
        gv == calls[v]
    IN  /\ ( IsGenerate(gp) /\ Finished(gp) /\ WellFormed(gp.secret)
             /\ KeyBytes(gp.secret) >= 1 /\ gp.timeStep > 0 /\ gp.digits > 0 )
           => gp.pc = "resolved"
        /\ ( Presented(gp, gv) /\ gv.timestamp = gp.timestamp /\ gv.window >= 0 )
           => (gv.pc = "resolved" /\ gv.valid)

\* A code was generated and verified with the same options and window = 0.
C1_Witness ==
  /\ Presented(calls[Prover], calls[Second])
  /\ calls[Second].timestamp = calls[Prover].timestamp
  /\ calls[Second].window = 0
  /\ calls[Second].timeStep > 0 /\ calls[Second].digits > 0
  /\ calls[Second].valid

(***************************************************************************)
(* C2.  Drift tolerance.                                                   *)
(***************************************************************************)
\* C2: the counters are floor(timestamp / 1000 / timeStep), and a code
\* generated at counter c is accepted by a verification at counter c' with the
\* same secret, timeStep, digits and algorithm whenever |c - c'| <= window.
C2_DriftTolerance ==
  \A p \in CallIds, v \in CallIds :
    LET gp == calls[p]
        gv == calls[v]
    IN  Presented(gp, gv) =>
          /\ IsFloorQuotient(gp.counter, gp.timestamp, 1000 * gp.timeStep)
          /\ IsFloorQuotient(gv.counter, gv.timestamp, 1000 * gv.timeStep)
          /\ Distance(gp.counter, gv.counter) <= gv.window
               => (gv.pc = "resolved" /\ gv.valid)

\* A code generated one step later than the verification's counter was accepted,
\* and so was one generated one step earlier.
C2_Witness ==
  /\ Presented(calls[Prover], calls[Second])
  /\ calls[Second].timeStep = DefaultTimeStep
  /\ calls[Second].window = 1
  /\ calls[Prover].counter = calls[Second].counter + 1
  /\ calls[Second].valid

C4_CodeShape ==
  \A p \in CallIds :
    LET gp  == calls[p]
        mac == hmacTable[<< gp.algorithm, gp.decodedSecret, toUint8Array(gp.counter) >>]
    IN  ( IsGenerate(gp) /\ gp.pc = "resolved" /\ gp.digits > 0 ) =>
          /\ Len(gp.code) = gp.digits
          /\ \A i \in 1..Len(gp.code) : gp.code[i] \in DecimalDigits
          /\ DecimalValue(gp.code) =
               IF gp.digits >= 10 THEN TruncBinary(mac)
                                  ELSE TruncBinary(mac) % (10 ^ gp.digits)

\* A truncated value of 42 came out as the six characters 000042.
C4_Witness ==
  /\ IsGenerate(calls[Prover]) /\ calls[Prover].pc = "resolved"
  /\ calls[Prover].digits = 6
  /\ calls[Prover].code = << "0","0","0","0","4","2" >>

(***************************************************************************)
(* C5.  An invalid secret is an error.                                     *)
(***************************************************************************)
\* C5: a call whose secret, its trailing '=' dropped and upper-cased, holds a
\* character outside A-Z2-7 is rejected with the decoder's error; it returns
\* no code and no boolean and signs nothing.
C5_InvalidSecretRejected ==
  \A c \in CallIds :
    ( calls[c].op # "none" /\ ~WellFormed(calls[c].secret) ) =>
      /\ calls[c].pc = "rejected"
      /\ calls[c].error = Base32Error
      /\ calls[c].code = NoText
      /\ ~calls[c].valid
      /\ calls[c].computed = << >>
      /\ DOMAIN hmacTable = {}

\* generateTOTP and verifyTOTP were both called with the secret "12345".
C5_Witness ==
  /\ IsGenerate(calls[Prover]) /\ IsVerify(calls[Second])
  /\ calls[Prover].secret = SecretInvalid /\ calls[Second].secret = SecretInvalid
  /\ calls[Prover].pc = "rejected" /\ calls[Second].pc = "rejected"

(***************************************************************************)
(* C6.  Parameter validation.                                              *)
(***************************************************************************)
\* C6 as stated: a call with non-positive digits or timeStep, or a negative
\* window, fails with an error and returns neither a code nor a boolean.
C6_ParametersValidated ==
  \A c \in CallIds :
    ( Finished(calls[c])
      /\ WellFormed(calls[c].secret) /\ KeyBytes(calls[c].secret) >= 1
      /\ ( calls[c].digits <= 0 \/ calls[c].timeStep <= 0
           \/ (IsVerify(calls[c]) /\ calls[c].window < 0) ) )
    => calls[c].pc = "rejected"

(***************************************************************************)
(* C7.  A mismatch is the result false, not an error.                      *)
(***************************************************************************)
\* C7 as stated: with a well-formed secret and valid options, verifyTOTP never
\* fails, and it returns true only for a token equal to the code of a counter
\* of its window.
C7_MismatchIsFalseAnySecret ==
  \A v \in CallIds :
    LET gv == calls[v]
    IN  ( IsVerify(gv) /\ Finished(gv) /\ WellFormed(gv.secret)
          /\ gv.timeStep > 0 /\ gv.digits > 0 /\ gv.window >= 0 )
        => /\ gv.pc = "resolved"
           /\ gv.valid => gv.token \in WindowCodes(gv)

\* C7 (amended): the same for a well-formed secret that decodes to at least
\* one byte.
C7_MismatchIsFalse ==
  \A v \in CallIds :
    LET gv == calls[v]
    IN  ( IsVerify(gv) /\ Finished(gv) /\ WellFormed(gv.secret)
          /\ KeyBytes(gv.secret) >= 1
          /\ gv.timeStep > 0 /\ gv.digits > 0 /\ gv.window >= 0 )
        => /\ gv.pc = "resolved"
           /\ gv.valid => gv.token \in WindowCodes(gv)

\* The token 42 was refused although 000042 is the code of a counter of the window.
C7_Witness ==
  LET gv == calls[Second]
  IN  /\ IsVerify(gv) /\ gv.pc = "resolved" /\ ~gv.valid
      /\ gv.timeStep > 0 /\ gv.digits = 6 /\ gv.window >= 0
      /\ gv.token = << "4","2" >>
      /\ << "0","0","0","0","4","2" >> \in WindowCodes(gv)

(***************************************************************************)
(* C8.  The provisioning URI.                                              *)
(***************************************************************************)
\* What the escapes of the characters of the arguments are, written out.
PathEscape(ch) ==
  CASE ch = " " -> "%20" [] ch = "@" -> "%40" [] ch = ":" -> "%3A"
    [] ch = "=" -> "%3D" [] OTHER -> ch

FormEscape(ch) ==
  CASE ch = " " -> "+"   [] ch = "@" -> "%40" [] ch = ":" -> "%3A"
    [] ch = "=" -> "%3D" [] ch = "!" -> "%21" [] OTHER -> ch

RECURSIVE PathEscaped(_)
PathEscaped(text) ==
  IF Len(text) = 0 THEN "" ELSE PathEscape(text[1]) \o PathEscaped(Tail(text))

RECURSIVE FormEscaped(_)
FormEscaped(text) ==
  IF Len(text) = 0 THEN "" ELSE FormEscape(text[1]) \o FormEscaped(Tail(text))

RECURSIVE AsGiven(_)
AsGiven(text) == IF Len(text) = 0 THEN "" ELSE text[1] \o AsGiven(Tail(text))

AlgorithmParameter(options) ==
  IF "algorithm" \notin DOMAIN options THEN "SHA1"
  ELSE CASE options.algorithm = << "S","H","A","-","1" >>         -> "SHA1"
         [] options.algorithm = << "S","H","A","-","2","5","6" >> -> "SHA256"
         [] options.algorithm = << "S","H","A","-","5","1","2" >> -> "SHA512"

DigitsParameter(options) ==
  IF "digits" \notin DOMAIN options THEN "6" ELSE AsGiven(toString(options.digits))

PeriodParameter(options) ==
  IF "period" \notin DOMAIN options THEN "30" ELSE AsGiven(toString(options.period))

\* C8 as stated: the URI is otpauth://totp/<percent-encoded issuer:account>
\* ?secret=<secret as given>&issuer=<issuer, form-encoded>&algorithm=<without
\* hyphens>&digits=<digits>&period=<period>, with the defaults 6, 30 and SHA1.
C8_URISecretAsGiven ==
  pure.op = "generateTOTPURI" =>
    pure.uri = "otpauth://totp/"
               \o PathEscaped(pure.options.issuer \o << ":" >> \o pure.options.accountName)
               \o "?secret=" \o AsGiven(pure.options.secret)
               \o "&issuer=" \o FormEscaped(pure.options.issuer)
               \o "&algorithm=" \o AlgorithmParameter(pure.options)
               \o "&digits=" \o DigitsParameter(pure.options)
               \o "&period=" \o PeriodParameter(pure.options)

\* C8 (amended): the same with the secret form-encoded like the issuer (and so
\* as given when it holds only letters, digits, '*', '-', '.' and '_').
C8_URIFormat ==
  pure.op = "generateTOTPURI" =>
    pure.uri = "otpauth://totp/"
               \o PathEscaped(pure.options.issuer \o << ":" >> \o pure.options.accountName)
               \o "?secret=" \o FormEscaped(pure.options.secret)
               \o "&issuer=" \o FormEscaped(pure.options.issuer)
               \o "&algorithm=" \o AlgorithmParameter(pure.options)
               \o "&digits=" \o DigitsParameter(pure.options)
               \o "&period=" \o PeriodParameter(pure.options)

\* The URI of an issuer with a space and an account with an '@', digits,
\* period and algorithm left out.
C8_Witness ==
  /\ pure.op = "generateTOTPURI"
  /\ pure.options = [ accountName |-> << "a","@","b" >>, issuer |-> << "R"," ","C" >>,
                      secret |-> << "M","Z","X","W","6" >> ]
  /\ pure.uri = "otpauth://totp/R%20C%3Aa%40b?secret=MZXW6&issuer=R+C&algorithm=SHA1&digits=6&period=30"

(***************************************************************************)
(* C9.  Secret generation.                                                 *)
(***************************************************************************)
\* C9: generateTOTPSecret(n) (n = 32 when left out) returns n characters,
\* character i being the one at index randomByte_i mod 32 of A-Z2-7, and the
\* Base32 decoder accepts the result.
C9_SecretGeneration ==
  pure.op = "generateTOTPSecret" =>
    LET n == IF "length" \in DOMAIN pure.options THEN pure.options.length ELSE 32
    IN  /\ Len(pure.secret) = n
        /\ \A i \in 1..n :
             /\ pure.secret[i] \in Base32Chars
             /\ indexOf(pure.secret[i]) = pure.randomValues[i] % 32
        /\ WellFormed(pure.secret)
        /\ base32Decode(pure.secret).ok

\* A secret of three characters drawn from the bytes 0, 255 and 32.
C9_Witness ==
  /\ pure.op = "generateTOTPSecret"
  /\ pure.options = [length |-> 3]
  /\ pure.randomValues = << 0, 255, 32 >>
  /\ pure.secret = << "A","7","A" >>

(***************************************************************************)
(* C10.  Determinism and call independence.                                *)
(***************************************************************************)
\* C10: whatever the calls and however they interleave, two HOTP computations
\* with the same key, counter, digits and algorithm yield the same code, and
\* two generateTOTP calls with the same arguments return the same code.
C10_Deterministic ==
  \A c \in CallIds, d \in CallIds :
    LET gc == calls[c]
        gd == calls[d]
    IN  /\ \A i \in 1..Len(gc.otps), j \in 1..Len(gd.otps) :
             ( gc.decodedSecret = gd.decodedSecret /\ gc.algorithm = gd.algorithm
               /\ gc.digits = gd.digits /\ gc.computed[i] = gd.computed[j] )
             => gc.otps[i] = gd.otps[j]
        /\ ( IsGenerate(gc) /\ IsGenerate(gd) /\ gc.pc = "resolved" /\ gd.pc = "resolved"
             /\ SameOptions(gc, gd) /\ gc.timestamp = gd.timestamp )
           => gc.code = gd.code

\* Two generateTOTP calls with the same arguments both returned.
C10_Witness ==
  /\ IsGenerate(calls[Prover]) /\ IsGenerate(calls[Second])
  /\ calls[Prover].pc = "resolved" /\ calls[Second].pc = "resolved"
  /\ calls[Prover].timestamp = calls[Second].timestamp
(***************************************************************************)
(* C11.  Order and bound of the verification loop.                         *)
(***************************************************************************)
\* The first n counters of r's window, in ascending order.
WindowPrefix(r, n) == [i \in 1..n |-> r.counter - r.window + (i - 1)]

NoMatchAmong(r, n) == \A i \in 1..n : r.otps[i] # r.token

\* What a verification with window >= 0 has computed at any moment.
C11_Loop ==
  \A c \in CallIds :
    LET r == calls[c]
        n == Len(r.computed)
    IN  (IsVerify(r) /\ r.window >= 0) =>
          /\ n <= 2 * r.window + 1
          /\ Len(r.otps) = n
          /\ r.computed = WindowPrefix(r, n)
          /\ NoMatchAmong(r, n - 1)
          /\ r.pc \in {"importKey", "sign"} =>
                (NoMatchAmong(r, n) /\ r.errorWindow = n - r.window)
          /\ (r.pc = "resolved" /\ r.valid) => (n >= 1 /\ r.otps[n] = r.token)
          /\ (r.pc = "resolved" /\ ~r.valid) =>
                (n = 2 * r.window + 1 /\ NoMatchAmong(r, n))
          /\ (r.window = 0 /\ r.pc = "resolved") => n = 1

\* One step of a verification: a computation starts (sign is called) only from
\* a call that has none in flight, and a step completes at most one
\* computation, the one in flight.
C11_Step ==
  \A c \in CallIds :
    LET r == calls[c]
        q == calls'[c]
    IN  IsVerify(q) =>
          /\ (q.pc = "sign" /\ r.pc # "sign") =>
                (r.pc = "importKey" /\ q.computed = r.computed)
          /\ q.computed # r.computed =>
                (r.pc = "sign" /\ q.pc # "sign"
                 /\ q.computed = Append(r.computed, r.counter + r.errorWindow))

\* C11: verifyTOTP computes the codes of counter-window, ..., counter+window one
\* at a time in ascending order, each computation starting after the previous
\* one completed; it returns true at the first match without computing a later
\* code, returns false only after all 2*window+1 computations mismatched (one
\* computation when window = 0), and every verification terminates, after at
\* most 2*window+1 computations.
C11_LoopOrderAndBound ==
  /\ []C11_Loop
  /\ [][C11_Step]_vars
  /\ \A c \in CallIds : (IsVerify(calls[c]) ~> Finished(calls[c]))

\* A verification with window 1 returned true at its second counter, leaving
\* the third uncomputed.
C11_Witness ==
  LET r == calls[Second]
  IN  /\ IsVerify(r) /\ r.pc = "resolved" /\ r.valid
      /\ r.window = 1
      /\ r.computed = << r.counter - 1, r.counter >>

(***************************************************************************)
(* C12.  The short-circuiting loop against computing every code.           *)
(***************************************************************************)
\* The provider's query for the counter at offset k of v's window.
WindowQuery(v, k) == << v.algorithm, v.decodedSecret, toUint8Array(v.counter + k) >>

WindowOffsets(v) == (-v.window)..v.window

\* The offsets of v's window the provider has not been asked about, and the
\* ways it may answer them when asked.
Unanswered(v) == { k \in WindowOffsets(v) : WindowQuery(v, k) \notin DOMAIN hmacTable }

Completions(v) == [ Unanswered(v) -> MacSamples(v.algorithm) ]

\* The result of the variant that computes the code of every counter of the
\* window, in whatever order, and returns whether any equals the token; `rest`
\* holds the provider's answers to the queries the loop never made.
ComputeAllResult(v, rest) ==
  \E k \in WindowOffsets(v) :
    CodeOf(IF k \in Unanswered(v) THEN rest[k] ELSE hmacTable[WindowQuery(v, k)],
           v.digits) = v.token

\* C12: for every token, secret, counter, window, digits and algorithm, the
\* boolean the sequential short-circuiting loop returns is the boolean returned
\* by computing the codes of all the window's counters and testing whether any
\* equals the token, whatever the codes the loop skipped turn out to be; and
\* the loop fails only for a cause every one of those computations shares.
C12_ShortCircuitEquivalence ==
  \A c \in CallIds :
    LET v == calls[c]
    IN  /\ (IsVerify(v) /\ v.pc = "resolved") =>
              \A rest \in Completions(v) : v.valid = ComputeAllResult(v, rest)
        /\ (IsVerify(v) /\ v.pc = "rejected") =>
              \/ v.error = Base32Error
              \/ Len(v.decodedSecret) = 0
              \/ ~v.counterFinite

\* A verification with window 1 returned true at its first counter; the codes
\* of the two later counters were never computed.
C12_Witness ==
  LET v == calls[Second]
  IN  /\ IsVerify(v) /\ v.pc = "resolved" /\ v.valid
      /\ v.window = 1
      /\ Len(v.computed) = 1
      /\ Unanswered(v) = { 0, 1 }

(***************************************************************************)
(* C13.  The counters that are signed.                                     *)
(***************************************************************************)
\* The number a sequence of bytes denotes, most significant byte first.
RECURSIVE BytesValue(_)
BytesValue(bytes) ==
  IF Len(bytes) = 0 THEN 0
  ELSE 256 * BytesValue(SubSeq(bytes, 1, Len(bytes) - 1)) + bytes[Len(bytes)]

\* n is not negative and `message` is its unsigned representation in 8 bytes.
EncodesUnsigned(message, n) ==
  /\ n >= 0
  /\ Len(message) = 8
  /\ \A i \in 1..8 : message[i] \in 0..255
  /\ BytesValue(message) = n

\* C13: for every non-negative timestamp, positive timeStep and window >= 0,
\* every counter generateTOTP or verifyTOTP computes a code for (the low end
\* counter - window included) is a non-negative integer, and the message that
\* is signed is its 8-byte big-endian representation.
C13_CountersNonNegative ==
  \A c \in CallIds :
    LET r == calls[c]
    IN  ( r.op # "none" /\ r.timestamp >= 0 /\ r.timeStep > 0 /\ r.window >= 0 ) =>
          /\ \A i \in 1..Len(r.computed) : r.computed[i] >= 0
          /\ r.pc = "sign" => EncodesUnsigned(r.message, r.counter + r.errorWindow)

(***************************************************************************)
(* C14.  Dynamic truncation.                                               *)
(***************************************************************************)
\* The byte b with its top bit cleared (b & 0x7F).
ClearTopBit(b) == IF b >= 128 THEN b - 128 ELSE b

\* C14: for a MAC of 20, 32 or 64 bytes, the offset is the low four bits of the
\* last byte, the four bytes at offset..offset+3 lie inside the MAC, and binary
\* is the 31-bit number they denote, most significant byte first, with the top
\* bit of the first one cleared: a value in 0 .. 2^31-1.
C14_DynamicTruncation ==
  pure.op = "truncation" =>
    LET mac    == pure.hmac
        offset == pure.offset
    IN  /\ Len(mac) \in { 20, 32, 64 }
        /\ offset \in 0..15
        /\ \E high \in 0..15 : mac[Len(mac)] = 16 * high + offset
        /\ offset + 3 <= Len(mac) - 1
        /\ pure.binary \in 0..2147483647
        /\ pure.binary = BytesValue(<< ClearTopBit(mac[offset + 1]), mac[offset + 2],
                                       mac[offset + 3], mac[offset + 4] >>)

\* A 20-byte MAC whose last byte selects the largest offset, 15, and whose four
\* bytes there are all 0xFF was truncated to 2^31-1.
C14_Witness ==
  /\ pure.op = "truncation"
  /\ Len(pure.hmac) = 20
  /\ pure.hmac[20] = 255
  /\ pure.offset = 15
  /\ pure.binary = 2147483647

(***************************************************************************)
(* C15.  Base32 decoding.                                                  *)
(***************************************************************************)
\* The 5-bit value of a character of the alphabet, in either letter case.
IsBase32Char(ch) ==
  \E v \in 0..31 : alphabet[v + 1] = ch \/ (v < 26 /\ LowerLetters[v + 1] = ch)

Base32Value(ch) ==
  CHOOSE v \in 0..31 : alphabet[v + 1] = ch \/ (v < 26 /\ LowerLetters[v + 1] = ch)

\* The number of characters before the trailing run of '='.
BodyLength(text) ==
  CHOOSE n \in 0..Len(text) :
    /\ \A i \in (n + 1)..Len(text) : text[i] = "="
    /\ n = 0 \/ text[n] # "="

\* The number the first n characters' 5-bit values denote when concatenated,
\* most significant first.
RECURSIVE StreamValue(_, _)
StreamValue(text, n) ==
  IF n = 0 THEN 0 ELSE 32 * StreamValue(text, n - 1) + Base32Value(text[n])

\* C15: for a text of n alphabet characters in any letter case followed by any
\* number of '=', base32Decode returns floor(5n/8) bytes, which are the leading
\* 8*floor(5n/8) bits of the characters' 5-bit values; the (5n mod 8) leftover
\* bits are dropped.  The right-hand side reads neither the letters' case nor
\* the padding, so the result depends on neither.
C15_Base32Decode ==
  pure.op = "base32Decode" =>
    LET n     == BodyLength(pure.input)
        bytes == pure.decoded.bytes
    IN  (\A i \in 1..n : IsBase32Char(pure.input[i])) =>
          /\ pure.decoded.ok
          /\ Len(bytes) = (5 * n) \div 8
          /\ \A k \in 1..Len(bytes) : bytes[k] \in 0..255
          /\ BytesValue(bytes) = StreamValue(pure.input, n) \div (2 ^ ((5 * n) % 8))

\* "hH7AA==" (five characters, mixed case, padded) was decoded to three bytes.
C15_Witness ==
  /\ pure.op = "base32Decode"
  /\ pure.input = << "h", "H", "7", "A", "A", "=", "=" >>
  /\ pure.decoded.ok
  /\ pure.decoded.bytes = << 57, 254, 0 >>

=============================================================================
